---- MODULE Spec2Model ----
(***************************************************************************)
(* Fitness tracker microservices: the Users service (src/app) and the      *)
(* Workout service (src/workout_service), both on the database that        *)
(* app.database configures, and the Users service's proxy / aggregation    *)
(* calls to the Workout and Goals peers.                                   *)
(*                                                                         *)
(* Every HTTP handler is one action.  The response of the request handled  *)
(* last is kept in `last` (handler, request, status, body, and the         *)
(* downstream calls the handler issued).                                   *)
(***************************************************************************)
EXTENDS Integers, Sequences, FiniteSets, TLC

VARIABLES
    dialect,      \* the database behind app.database.engine
    users,        \* table "users":    user_id -> row
    userSeq,      \* last value of the users key sequence (postgresql)
    workouts,     \* table "workouts": id -> row
    workoutSeq,   \* last value of the workouts key sequence (postgresql)
    last,         \* the last request handled and its response
    issuedUserIds,    \* history: user ids returned by successful creates
    issuedWorkoutIds, \* history: workout ids returned by successful creates
    sessions      \* open Users-service transactions (concurrent requests)

vars == <<dialect, users, userSeq, workouts, workoutSeq, last,
          issuedUserIds, issuedWorkoutIds, sessions>>

----------------------------------------------------------------------------
(* Bounds of the model *)

\* keys the users table may hand out
MaxUserId == 2
\* keys the workouts table may hand out
MaxWorkoutId == 2

----------------------------------------------------------------------------
(* Values *)

\* Python's None.  Column values are opaque tokens, all written as strings.
None == "None"

HTTP_201_CREATED == 201
HTTP_204_NO_CONTENT == 204
HTTP_404_NOT_FOUND == 404
HTTP_409_CONFLICT == 409
HTTP_502_BAD_GATEWAY == 502

\* The database the engine talks to.  SQLAlchemy leaves two things the
\* handlers depend on to the database: how an Integer primary key is
\* generated (SQLite: rowid, max(key)+1; PostgreSQL: a sequence that never
\* goes back) and whether a declared FOREIGN KEY is enforced (SQLite: not
\* unless switched on per connection; PostgreSQL: always).
Dialects == {"sqlite", "postgresql"}

ForeignKeysEnforced == dialect = "postgresql"

Max(S) == CHOOSE m \in S : \A x \in S : x <= m

\* tbl with row r stored under key k
Put(tbl, k, r) == [i \in DOMAIN tbl \cup {k} |-> IF i = k THEN r ELSE tbl[i]]

\* tbl without key k
Remove(tbl, k) == [i \in DOMAIN tbl \ {k} |-> tbl[i]]

EmptyTable == [i \in {} |-> None]

----------------------------------------------------------------------------
(* Users service: schema and payloads *)

\* columns of UserDB besides the key
UserFields == {"name", "email", "age", "gender"}

\* UserInput bodies used by POST and PUT
Ann == [name |-> "Ann", email |-> "ann@x.com", age |-> "30", gender |-> "female"]
Bob == [name |-> "Bob", email |-> "bob@x.com", age |-> "41", gender |-> "male"]
\* another person registering with Ann's address
Rob == [name |-> "Bob", email |-> "ann@x.com", age |-> "41", gender |-> "male"]

UserInputs == {Ann, Bob, Rob}

\* UserUpdate bodies used by PATCH: every field is optional, fields_set is
\* pydantic's model_fields_set (the fields the request body named)
UserUpdate(fs, name, email, age, gender) ==
    [fields_set |-> fs, name |-> name, email |-> email, age |-> age,
     gender |-> gender]

UserUpdates ==
    { UserUpdate({}, None, None, None, None),
      UserUpdate({"name", "age"}, "Bob", None, "41", None),
      UserUpdate({"email", "gender"}, None, "bob@x.com", None, "male"),
      UserUpdate({"name"}, None, None, None, None) }

\* payload.model_dump(): every field of the schema, named by the body or not
model_dump(payload) == DOMAIN payload \ {"fields_set"}

\* payload.model_dump(exclude_unset=True): the fields the body named
model_dump_exclude_unset(payload) == payload.fields_set

\* UserDB(**payload.model_dump()) once the key is known
UserDB(id, payload) ==
    [user_id |-> id, name |-> payload.name, email |-> payload.email,
     age |-> payload.age, gender |-> payload.gender]

\* data = payload.model_dump(exclude_unset=True)
\* for field, value in data.items(): setattr(user, field, value)
SetUserAttrs(user, payload) ==
    LET data == model_dump_exclude_unset(payload)
    IN  [user_id |-> user.user_id,
         name    |-> IF "name" \in data THEN payload.name ELSE user.name,
         email   |-> IF "email" \in data THEN payload.email ELSE user.email,
         age     |-> IF "age" \in data THEN payload.age ELSE user.age,
         gender  |-> IF "gender" \in data THEN payload.gender ELSE user.gender]

\* path ids the requests use: every key the table can hold and one more
UserIdArgs == 1..(MaxUserId + 1)

----------------------------------------------------------------------------
(* The database *)

\* the key an INSERT without a key gets
NextKey(tbl, seq) ==
    IF dialect = "sqlite"
    THEN (IF DOMAIN tbl = {} THEN 1 ELSE Max(DOMAIN tbl) + 1)
    ELSE seq + 1

\* the key sequence after an INSERT drew key id: a sequence value, once
\* drawn, stays drawn when the transaction rolls back
SeqAfter(seq, id) == IF dialect = "postgresql" THEN id ELSE seq

\* the users table with email declared without unique=True
UsersIntegrityErrorNoUnique(pending) ==
    \E i \in DOMAIN pending :
       None \in {pending[i].name, pending[i].email, pending[i].age,
                 pending[i].gender}

\* what the users table refuses at flush: email is unique, no column is NULL
UsersIntegrityError(pending) ==
    \/ \E i, j \in DOMAIN pending : i # j /\ pending[i].email = pending[j].email
    \/ \E i \in DOMAIN pending :
          None \in {pending[i].name, pending[i].email, pending[i].age,
                    pending[i].gender}

\* rows of the workouts table that reference user id
ReferencedBy(id) == {w \in DOMAIN workouts : workouts[w].user_id = id}

\* db.commit() with the IntegrityError swallowed and no rollback
commit_without_rollback(tbl, pending, error) == pending

\* db.commit() inside try / except IntegrityError: db.rollback(): the table
\* after the attempt
commit_or_rollback(tbl, pending, error) == IF error THEN tbl ELSE pending

\* the response a handler returns
Response(op, id, payload, status, body) ==
    [op |-> op, id |-> id, payload |-> payload, status |-> status,
     body |-> body, calls |-> <<>>]

\* raise HTTPException(status_code=..., detail=...)
HTTPException(op, id, payload, status, detail) ==
    [op |-> op, id |-> id, payload |-> payload, status |-> status,
     body |-> [detail |-> detail], calls |-> <<>>]

\* no response is on its way out: the worker is free to take a request
NoRequest == Response("none", 0, None, 0, None)

Idle == last.op = "none"

\* the handler has returned (or raised): the response goes out and the
\* worker takes the next request
send_response ==
    /\ ~Idle
    /\ last' = NoRequest
    /\ UNCHANGED <<dialect, users, userSeq, workouts, workoutSeq,
                   issuedUserIds, issuedWorkoutIds, sessions>>

----------------------------------------------------------------------------
(* Users service: CRUD handlers *)

\* POST /api/users
add_user(payload) ==
    /\ Idle
    /\ LET id      == NextKey(users, userSeq)
           user    == UserDB(id, payload)
           pending == Put(users, id, user)
           error   == UsersIntegrityError(pending)
       IN  /\ id <= MaxUserId
           /\ users' = commit_or_rollback(users, pending, error)
           /\ userSeq' = SeqAfter(userSeq, id)
           /\ last' = IF error
                      THEN HTTPException("add_user", 0, payload, HTTP_409_CONFLICT,
                                         "User already exists")
                      ELSE Response("add_user", 0, payload, HTTP_201_CREATED, user)
           /\ issuedUserIds' = IF error THEN issuedUserIds
                               ELSE issuedUserIds \cup {id}
           /\ UNCHANGED <<dialect, workouts, workoutSeq, issuedWorkoutIds, sessions>>

\* GET /api/users/{user_id}
get_user(user_id) ==
    /\ Idle
    /\ /\ last' = IF user_id \notin DOMAIN users
                  THEN HTTPException("get_user", user_id, None, HTTP_404_NOT_FOUND,
                                     "User not found")
                  ELSE Response("get_user", user_id, None, 200, users[user_id])
       /\ UNCHANGED <<dialect, users, userSeq, workouts, workoutSeq,
                      issuedUserIds, issuedWorkoutIds, sessions>>

\* PUT /api/users/{user_id}
replace_user(user_id, payload) ==
    /\ Idle
    /\ IF user_id \notin DOMAIN users
       THEN /\ last' = HTTPException("replace_user", user_id, payload,
                                     HTTP_404_NOT_FOUND, "User not found")
            /\ UNCHANGED <<dialect, users, userSeq, workouts, workoutSeq,
                           issuedUserIds, issuedWorkoutIds, sessions>>
       ELSE LET user    == UserDB(user_id, payload)
                pending == Put(users, user_id, user)
                error   == UsersIntegrityError(pending)
            IN  /\ users' = commit_or_rollback(users, pending, error)
                /\ last' = IF error
                           THEN HTTPException("replace_user", user_id, payload,
                                              HTTP_409_CONFLICT, "User update failed")
                           ELSE Response("replace_user", user_id, payload, 200, user)
                /\ UNCHANGED <<dialect, userSeq, workouts, workoutSeq,
                               issuedUserIds, issuedWorkoutIds, sessions>>

\* PATCH /api/users/{user_id}
update_user(user_id, payload) ==
    /\ Idle
    /\ IF user_id \notin DOMAIN users
       THEN /\ last' = HTTPException("update_user", user_id, payload,
                                     HTTP_404_NOT_FOUND, "User not found")
            /\ UNCHANGED <<dialect, users, userSeq, workouts, workoutSeq,
                           issuedUserIds, issuedWorkoutIds, sessions>>
       ELSE LET user    == SetUserAttrs(users[user_id], payload)
                pending == Put(users, user_id, user)
                error   == UsersIntegrityError(pending)
            IN  /\ users' = commit_or_rollback(users, pending, error)
                /\ last' = IF error
                           THEN HTTPException("update_user", user_id, payload,
                                              HTTP_409_CONFLICT, "User update failed")
                           ELSE Response("update_user", user_id, payload, 200, user)
                /\ UNCHANGED <<dialect, userSeq, workouts, workoutSeq,
                               issuedUserIds, issuedWorkoutIds, sessions>>

\* DELETE /api/users/{user_id}: db.delete(user); db.commit() with no handler
\* for IntegrityError, which a referencing workout raises where foreign keys
\* are enforced; the exception leaves the handler and the server answers 500
delete_user(user_id) ==
    /\ Idle
    /\ IF user_id \notin DOMAIN users
       THEN /\ last' = HTTPException("delete_user", user_id, None,
                                     HTTP_404_NOT_FOUND, "User not found")
            /\ UNCHANGED <<dialect, users, userSeq, workouts, workoutSeq,
                           issuedUserIds, issuedWorkoutIds, sessions>>
       ELSE LET error == ForeignKeysEnforced /\ ReferencedBy(user_id) # {}
            IN  /\ users' = IF error THEN users ELSE Remove(users, user_id)
                /\ last' = IF error
                           THEN HTTPException("delete_user", user_id, None, 500,
                                              "Internal Server Error")
                           ELSE Response("delete_user", user_id, None,
                                         HTTP_204_NO_CONTENT, None)
                /\ UNCHANGED <<dialect, userSeq, workouts, workoutSeq,
                               issuedUserIds, issuedWorkoutIds, sessions>>

----------------------------------------------------------------------------
(* Ordered, paginated scans *)

Min(S) == CHOOSE m \in S : \A x \in S : m <= x

\* ORDER BY key: the rows of tbl with a key in keys, ascending
RECURSIVE OrderBy(_, _)
OrderBy(tbl, keys) ==
    IF keys = {} THEN <<>>
    ELSE LET k == Min(keys) IN <<tbl[k]>> \o OrderBy(tbl, keys \ {k})

\* OFFSET n: rows without the first n
RECURSIVE Offset(_, _)
Offset(rows, n) ==
    IF n = 0 \/ rows = <<>> THEN rows ELSE Offset(Tail(rows), n - 1)

\* LIMIT n: the first n rows
RECURSIVE Limit(_, _)
Limit(rows, n) ==
    IF n = 0 \/ rows = <<>> THEN <<>>
    ELSE <<Head(rows)>> \o Limit(Tail(rows), n - 1)

\* select(UserDB).order_by(UserDB.user_id).limit(limit).offset(offset)
SelectUsers(limit, offset) ==
    Limit(Offset(OrderBy(users, DOMAIN users), offset), limit)

\* GET /api/users?limit=&offset=
list_users(limit, offset) ==
    /\ Idle
    /\ /\ last' = Response("list_users", 0, [limit |-> limit, offset |-> offset],
                           200, SelectUsers(limit, offset))
       /\ UNCHANGED <<dialect, users, userSeq, workouts, workoutSeq,
                      issuedUserIds, issuedWorkoutIds, sessions>>

\* limit and offset query parameters: the defaults (limit 10, offset 0) and
\* pages that start and end inside, at and past the end of the table
PageArgs ==
    {<<10, 0>>, <<0, 1>>, <<1, 1>>, <<2, 1>>, <<2, 3>>}

----------------------------------------------------------------------------
(* Workout service: schema and payloads *)

\* WorkoutCreate bodies (WorkoutBase and user_id)
Run ==
    [user_id |-> 1, name |-> "Run", date |-> "2024-01-01",
     duration_minutes |-> "30", intensity |-> "medium",
     workout_type |-> "cardio", notes |-> None]
Lift ==
    [user_id |-> 2, name |-> "Lift", date |-> "2024-02-02",
     duration_minutes |-> "45", intensity |-> "high",
     workout_type |-> "strength", notes |-> "legs"]

WorkoutCreates == {Run, Lift}

\* WorkoutCreate bodies used by PUT
WorkoutReplacements == {Lift}

\* the fields WorkoutUpdate declares: user_id is not one of them
WorkoutUpdateFields ==
    {"name", "date", "duration_minutes", "intensity", "workout_type", "notes",
     "calories_burned"}

\* WorkoutUpdate: every field Optional with default None
WorkoutUpdate(fs, name, date, duration_minutes, intensity, workout_type, notes, calories_burned) ==
    [fields_set |-> fs, name |-> name, date |-> date,
     duration_minutes |-> duration_minutes, intensity |-> intensity,
     workout_type |-> workout_type, notes |-> notes,
     calories_burned |-> calories_burned]

WorkoutUpdates ==
    { WorkoutUpdate({}, None, None, None, None, None, None, None),
      WorkoutUpdate({"duration_minutes"}, None, None, "45", None, None, None,
                    None),
      WorkoutUpdate({"name", "date", "intensity", "workout_type", "notes",
                     "calories_burned"},
                    "Lift", "2024-02-02", None, "high", "strength", "legs",
                    "300"),
      WorkoutUpdate({"name"}, None, None, None, None, None, None, None) }

\* WorkoutDB(**payload.model_dump()): calories_burned is no field of
\* WorkoutCreate and starts NULL
WorkoutDB(id, payload) ==
    [id |-> id, user_id |-> payload.user_id, name |-> payload.name,
     date |-> payload.date, duration_minutes |-> payload.duration_minutes,
     intensity |-> payload.intensity, workout_type |-> payload.workout_type,
     notes |-> payload.notes, calories_burned |-> None]

\* replace_workout's seven assignments: calories_burned is not assigned
ReplaceWorkoutAttrs(workout, payload) ==
    [id |-> workout.id, user_id |-> payload.user_id, name |-> payload.name,
     date |-> payload.date, duration_minutes |-> payload.duration_minutes,
     intensity |-> payload.intensity, workout_type |-> payload.workout_type,
     notes |-> payload.notes, calories_burned |-> workout.calories_burned]

\* data = payload.model_dump(exclude_unset=True)
\* for field, value in data.items(): setattr(workout, field, value)
SetWorkoutAttrs(workout, payload) ==
    LET data == model_dump_exclude_unset(payload)
        new(f) == IF f \in data THEN payload[f] ELSE workout[f]
    IN  [id |-> workout.id, user_id |-> workout.user_id,
         name |-> new("name"), date |-> new("date"),
         duration_minutes |-> new("duration_minutes"),
         intensity |-> new("intensity"),
         workout_type |-> new("workout_type"), notes |-> new("notes"),
         calories_burned |-> new("calories_burned")]

\* the workouts table with user_id declared without the ForeignKey
WorkoutsIntegrityErrorNoForeignKey(pending) ==
    \E i \in DOMAIN pending :
       None \in {pending[i].name, pending[i].date,
                 pending[i].duration_minutes, pending[i].intensity,
                 pending[i].workout_type}

\* what the workouts table refuses at flush: a NULL in a nullable=False
\* column, and, where foreign keys are enforced, a user_id that is no key of
\* the users table (ForeignKey("users.user_id"))
WorkoutsIntegrityError(pending) ==
    \/ \E i \in DOMAIN pending :
          None \in {pending[i].name, pending[i].date,
                    pending[i].duration_minutes, pending[i].intensity,
                    pending[i].workout_type}
    \/ /\ ForeignKeysEnforced
       /\ \E i \in DOMAIN pending : pending[i].user_id \notin DOMAIN users

WorkoutIdArgs == 1..(MaxWorkoutId + 1)

----------------------------------------------------------------------------
(* Workout service: CRUD handlers *)

\* POST /api/workouts
create_workout(payload) ==
    /\ Idle
    /\ LET id      == NextKey(workouts, workoutSeq)
           workout == WorkoutDB(id, payload)
           pending == Put(workouts, id, workout)
           error   == WorkoutsIntegrityError(pending)
       IN  /\ id <= MaxWorkoutId
           /\ workouts' = commit_or_rollback(workouts, pending, error)
           /\ workoutSeq' = SeqAfter(workoutSeq, id)
           /\ last' = IF error
                      THEN HTTPException("create_workout", 0, payload,
                                         HTTP_409_CONFLICT, "Workout creation failed")
                      ELSE Response("create_workout", 0, payload, HTTP_201_CREATED,
                                    workout)
           /\ issuedWorkoutIds' = IF error THEN issuedWorkoutIds
                                  ELSE issuedWorkoutIds \cup {id}
           /\ UNCHANGED <<dialect, users, userSeq, issuedUserIds, sessions>>

\* GET /api/workouts/{workout_id}
get_workout(workout_id) ==
    /\ Idle
    /\ /\ last' = IF workout_id \notin DOMAIN workouts
                  THEN HTTPException("get_workout", workout_id, None,
                                     HTTP_404_NOT_FOUND, "Workout not found")
                  ELSE Response("get_workout", workout_id, None, 200,
                                workouts[workout_id])
       /\ UNCHANGED <<dialect, users, userSeq, workouts, workoutSeq,
                      issuedUserIds, issuedWorkoutIds, sessions>>

\* PUT /api/workouts/{workout_id}
replace_workout(workout_id, payload) ==
    /\ Idle
    /\ IF workout_id \notin DOMAIN workouts
       THEN /\ last' = HTTPException("replace_workout", workout_id, payload,
                                     HTTP_404_NOT_FOUND, "Workout not found")
            /\ UNCHANGED <<dialect, users, userSeq, workouts, workoutSeq,
                           issuedUserIds, issuedWorkoutIds, sessions>>
       ELSE LET workout == ReplaceWorkoutAttrs(workouts[workout_id], payload)
                pending == Put(workouts, workout_id, workout)
                error   == WorkoutsIntegrityError(pending)
            IN  /\ workouts' = commit_or_rollback(workouts, pending, error)
                /\ last' = IF error
                           THEN HTTPException("replace_workout", workout_id, payload,
                                              HTTP_409_CONFLICT,
                                              "Workout update failed")
                           ELSE Response("replace_workout", workout_id, payload,
                                         200, workout)
                /\ UNCHANGED <<dialect, users, userSeq, workoutSeq,
                               issuedUserIds, issuedWorkoutIds, sessions>>

\* PATCH /api/workouts/{workout_id}
update_workout(workout_id, payload) ==
    /\ Idle
    /\ IF workout_id \notin DOMAIN workouts
       THEN /\ last' = HTTPException("update_workout", workout_id, payload,
                                     HTTP_404_NOT_FOUND, "Workout not found")
            /\ UNCHANGED <<dialect, users, userSeq, workouts, workoutSeq,
                           issuedUserIds, issuedWorkoutIds, sessions>>
       ELSE LET workout == SetWorkoutAttrs(workouts[workout_id], payload)
                pending == Put(workouts, workout_id, workout)
                error   == WorkoutsIntegrityError(pending)
            IN  /\ workouts' = commit_or_rollback(workouts, pending, error)
                /\ last' = IF error
                           THEN HTTPException("update_workout", workout_id, payload,
                                              HTTP_409_CONFLICT,
                                              "Workout update failed")
                           ELSE Response("update_workout", workout_id, payload,
                                         200, workout)
                /\ UNCHANGED <<dialect, users, userSeq, workoutSeq,
                               issuedUserIds, issuedWorkoutIds, sessions>>

\* DELETE /api/workouts/{workout_id}: no row references a workout
delete_workout(workout_id) ==
    /\ Idle
    /\ IF workout_id \notin DOMAIN workouts
       THEN /\ last' = HTTPException("delete_workout", workout_id, None,
                                     HTTP_404_NOT_FOUND, "Workout not found")
            /\ UNCHANGED <<dialect, users, userSeq, workouts, workoutSeq,
                           issuedUserIds, issuedWorkoutIds, sessions>>
       ELSE /\ workouts' = Remove(workouts, workout_id)
            /\ last' = Response("delete_workout", workout_id, None,
                                HTTP_204_NO_CONTENT, None)
            /\ UNCHANGED <<dialect, users, userSeq, workoutSeq,
                           issuedUserIds, issuedWorkoutIds, sessions>>

\* the user_id query parameter of the list (int | None = None), as the set
\* of ids it names: none when absent
UserIdFilters == {{}, {1}, {2}}

\* the page cut out of all workouts first and filtered by user_id afterwards
SelectWorkoutsPageFirst(user_id, limit, offset) ==
    LET page == Limit(Offset(OrderBy(workouts, DOMAIN workouts), offset), limit)
        Wanted(row) == user_id = {} \/ row.user_id \in user_id
    IN  SelectSeq(page, Wanted)

\* stmt = select(WorkoutDB).order_by(WorkoutDB.id)
\* if user_id is not None: stmt = stmt.where(WorkoutDB.user_id == user_id)
\* stmt = stmt.limit(limit).offset(offset)
SelectWorkouts(user_id, limit, offset) ==
    LET keys == IF user_id = {} THEN DOMAIN workouts
                ELSE {w \in DOMAIN workouts : workouts[w].user_id \in user_id}
    IN  Limit(Offset(OrderBy(workouts, keys), offset), limit)

\* GET /api/workouts?user_id=&limit=&offset=
list_workouts(user_id, limit, offset) ==
    /\ Idle
    /\ /\ last' = Response("list_workouts", 0,
                           [user_id |-> user_id, limit |-> limit, offset |-> offset],
                           200, SelectWorkouts(user_id, limit, offset))
       /\ UNCHANGED <<dialect, users, userSeq, workouts, workoutSeq,
                      issuedUserIds, issuedWorkoutIds, sessions>>

----------------------------------------------------------------------------
(* Users service: proxy and aggregation *)

\* What a GET to a peer can come to: a response (any status, with the
\* peer's body), or no response at all (httpx.RequestError, with the
\* transport's description of what went wrong)
PeerOutcomes(peer) ==
    { [kind |-> "response", status_code |-> 200, text |-> <<peer, "json">>],
      [kind |-> "response", status_code |-> 404, text |-> <<peer, "not found">>],
      [kind |-> "response", status_code |-> 500, text |-> <<peer, "crashed">>],
      [kind |-> "RequestError", status_code |-> 0,
       text |-> <<peer, "connection refused">>] }

\* client.get(url, params={"user_id": user_id}): the call as the peer saw it
\* and what came of it
Call(peer, user_id, outcome) ==
    [peer |-> peer, user_id |-> user_id, outcome |-> outcome]

\* httpx.Response.is_success, which raise_for_status() tests
is_success(outcome) ==
    outcome.status_code >= 200 /\ outcome.status_code <= 299

\* proxy_workouts without res.raise_for_status(): whatever response came is
\* passed on
proxy_workouts_unchecked(user_id, outcome) ==
    /\ Idle
    /\ last' =
         IF user_id \notin DOMAIN users
         THEN HTTPException("proxy_workouts", user_id, None,
                            HTTP_404_NOT_FOUND, "User not found")
         ELSE [ (IF outcome.kind = "RequestError"
                 THEN HTTPException("proxy_workouts", user_id, None,
                         HTTP_502_BAD_GATEWAY,
                         <<"Error contacting workout service: ", outcome.text>>)
                 ELSE Response("proxy_workouts", user_id, None, 200,
                         [from |-> "user_service", workouts |-> outcome.text]))
                EXCEPT !.calls = <<Call("workouts", user_id, outcome)>> ]
    /\ UNCHANGED <<dialect, users, userSeq, workouts, workoutSeq,
                   issuedUserIds, issuedWorkoutIds, sessions>>

\* GET /api/proxy/workouts/{user_id}
proxy_workouts(user_id, outcome) ==
    /\ Idle
    /\ last' =
         IF user_id \notin DOMAIN users
         THEN HTTPException("proxy_workouts", user_id, None,
                            HTTP_404_NOT_FOUND, "User not found")
         ELSE [ (IF outcome.kind = "RequestError"
                 THEN HTTPException("proxy_workouts", user_id, None,
                         HTTP_502_BAD_GATEWAY,
                         <<"Error contacting workout service: ", outcome.text>>)
                 ELSE IF ~is_success(outcome)
                 THEN HTTPException("proxy_workouts", user_id, None,
                         HTTP_502_BAD_GATEWAY,
                         <<"Workout service error: ", outcome.text>>)
                 ELSE Response("proxy_workouts", user_id, None, 200,
                         [from |-> "user_service", workouts |-> outcome.text]))
                EXCEPT !.calls = <<Call("workouts", user_id, outcome)>> ]
    /\ UNCHANGED <<dialect, users, userSeq, workouts, workoutSeq,
                   issuedUserIds, issuedWorkoutIds, sessions>>

\* proxy_goals with the GET issued before the user is looked up
proxy_goals_call_first(user_id, outcome) ==
    /\ Idle
    /\ last' =
         [ (IF user_id \notin DOMAIN users
            THEN HTTPException("proxy_goals", user_id, None,
                               HTTP_404_NOT_FOUND, "User not found")
            ELSE IF outcome.kind = "RequestError"
            THEN HTTPException("proxy_goals", user_id, None,
                    HTTP_502_BAD_GATEWAY,
                    <<"Error contacting goals service: ", outcome.text>>)
            ELSE IF ~is_success(outcome)
            THEN HTTPException("proxy_goals", user_id, None,
                    HTTP_502_BAD_GATEWAY,
                    <<"Goals service error: ", outcome.text>>)
            ELSE Response("proxy_goals", user_id, None, 200,
                    [from |-> "user_service", goals |-> outcome.text]))
           EXCEPT !.calls = <<Call("goals", user_id, outcome)>> ]
    /\ UNCHANGED <<dialect, users, userSeq, workouts, workoutSeq,
                   issuedUserIds, issuedWorkoutIds, sessions>>

\* GET /api/proxy/goals/{user_id}
proxy_goals(user_id, outcome) ==
    /\ Idle
    /\ last' =
         IF user_id \notin DOMAIN users
         THEN HTTPException("proxy_goals", user_id, None,
                            HTTP_404_NOT_FOUND, "User not found")
         ELSE [ (IF outcome.kind = "RequestError"
                 THEN HTTPException("proxy_goals", user_id, None,
                         HTTP_502_BAD_GATEWAY,
                         <<"Error contacting goals service: ", outcome.text>>)
                 ELSE IF ~is_success(outcome)
                 THEN HTTPException("proxy_goals", user_id, None,
                         HTTP_502_BAD_GATEWAY,
                         <<"Goals service error: ", outcome.text>>)
                 ELSE Response("proxy_goals", user_id, None, 200,
                         [from |-> "user_service", goals |-> outcome.text]))
                EXCEPT !.calls = <<Call("goals", user_id, outcome)>> ]
    /\ UNCHANGED <<dialect, users, userSeq, workouts, workoutSeq,
                   issuedUserIds, issuedWorkoutIds, sessions>>

\* the "user" member of the summary
UserProjection(user) ==
    [user_id |-> user.user_id, name |-> user.name, email |-> user.email,
     age |-> user.age, gender |-> user.gender]

\* user_summary answering with what it has when the goals peer fails: the
\* user and the workouts, and no goals
SummaryPartial(user_id, w, g) ==
    LET op == "user_summary"
        wcall == Call("workouts", user_id, w)
        gcall == Call("goals", user_id, g)
    IN  IF w.kind = "RequestError"
        THEN [HTTPException(op, user_id, None, HTTP_502_BAD_GATEWAY,
                  <<"Error contacting downstream services: ", w.text>>)
              EXCEPT !.calls = <<wcall>>]
        ELSE IF ~is_success(w)
        THEN [HTTPException(op, user_id, None, HTTP_502_BAD_GATEWAY,
                  <<"Downstream service failed: ", w.text>>)
              EXCEPT !.calls = <<wcall, gcall>>]
        ELSE IF g.kind = "RequestError" \/ ~is_success(g)
        THEN [Response(op, user_id, None, 200,
                  [user |-> UserProjection(users[user_id]),
                   workouts |-> w.text])
              EXCEPT !.calls = <<wcall, gcall>>]
        ELSE [Response(op, user_id, None, 200,
                  [user |-> UserProjection(users[user_id]),
                   workouts |-> w.text, goals |-> g.text])
              EXCEPT !.calls = <<wcall, gcall>>]

\* The response of user_summary for a stored user, given what the two GETs
\* come to.  Both GETs are inside the with block, the workouts one first; a
\* RequestError from the first leaves the block before the second is issued.
\* The statuses are tested after the block, the workouts one first.
SummaryResponse(user_id, w, g) ==
    LET op == "user_summary"
        wcall == Call("workouts", user_id, w)
        gcall == Call("goals", user_id, g)
    IN  IF w.kind = "RequestError"
        THEN [HTTPException(op, user_id, None, HTTP_502_BAD_GATEWAY,
                  <<"Error contacting downstream services: ", w.text>>)
              EXCEPT !.calls = <<wcall>>]
        ELSE IF g.kind = "RequestError"
        THEN [HTTPException(op, user_id, None, HTTP_502_BAD_GATEWAY,
                  <<"Error contacting downstream services: ", g.text>>)
              EXCEPT !.calls = <<wcall, gcall>>]
        ELSE IF ~is_success(w)
        THEN [HTTPException(op, user_id, None, HTTP_502_BAD_GATEWAY,
                  <<"Downstream service failed: ", w.text>>)
              EXCEPT !.calls = <<wcall, gcall>>]
        ELSE IF ~is_success(g)
        THEN [HTTPException(op, user_id, None, HTTP_502_BAD_GATEWAY,
                  <<"Downstream service failed: ", g.text>>)
              EXCEPT !.calls = <<wcall, gcall>>]
        ELSE [Response(op, user_id, None, 200,
                  [user |-> UserProjection(users[user_id]),
                   workouts |-> w.text, goals |-> g.text])
              EXCEPT !.calls = <<wcall, gcall>>]

\* GET /api/user-summary/{user_id}
user_summary(user_id, w, g) ==
    /\ Idle
    /\ last' = IF user_id \notin DOMAIN users
               THEN HTTPException("user_summary", user_id, None,
                                  HTTP_404_NOT_FOUND, "User not found")
               ELSE SummaryResponse(user_id, w, g)
    /\ UNCHANGED <<dialect, users, userSeq, workouts, workoutSeq,
                   issuedUserIds, issuedWorkoutIds, sessions>>

----------------------------------------------------------------------------
(* Users service: requests in flight at the same time *)

(* Each request runs in its own Session (get_db) and is one transaction:   *)
(* the handler's db.get / db.add and assignments come first (tx_begin) and *)
(* its db.commit() later (tx_commit); other requests' steps may come in    *)
(* between.  Of the row it loaded the session keeps what the handler       *)
(* changed on it: the attributes whose value differs from the loaded one   *)
(* (dirty), with their new values.  The UPDATE that the flush emits sets   *)
(* those columns and no others.                                            *)

NoValues == [name |-> None, email |-> None, age |-> None, gender |-> None]

NoSession == [op |-> "none", id |-> 0, dirty |-> {}, values |-> NoValues]

\* the requests in flight at the same time: two, the fewest that interleave
Sessions == {1, 2}

\* the session after the handler assigned payload's Fields to user
Modified(op, user, payload, Fields) ==
    LET dirty == {f \in Fields : payload[f] # user[f]}
        new(f) == IF f \in dirty THEN payload[f] ELSE None
    IN  [op |-> op, id |-> user.user_id, dirty |-> dirty,
         values |-> [name |-> new("name"), email |-> new("email"),
                     age |-> new("age"), gender |-> new("gender")]]

\* add_user up to its commit: db.add(user), an INSERT is pending
tx_add_user(s, payload) ==
    /\ Idle
    /\ sessions[s].op = "none"
    /\ sessions' = [sessions EXCEPT ![s] =
                      [op |-> "add_user", id |-> 0, dirty |-> UserFields,
                       values |-> payload]]
    /\ UNCHANGED <<dialect, users, userSeq, workouts, workoutSeq, last,
                   issuedUserIds, issuedWorkoutIds>>

\* replace_user up to its commit
tx_replace_user(s, user_id, payload) ==
    /\ Idle
    /\ sessions[s].op = "none"
    /\ IF user_id \notin DOMAIN users
       THEN /\ last' = HTTPException("replace_user", user_id, None,
                                     HTTP_404_NOT_FOUND, "User not found")
            /\ UNCHANGED sessions
       ELSE /\ sessions' = [sessions EXCEPT ![s] =
                  Modified("replace_user", users[user_id], payload, UserFields)]
            /\ UNCHANGED last
    /\ UNCHANGED <<dialect, users, userSeq, workouts, workoutSeq,
                   issuedUserIds, issuedWorkoutIds>>

\* update_user up to its commit
tx_update_user(s, user_id, payload) ==
    /\ Idle
    /\ sessions[s].op = "none"
    /\ IF user_id \notin DOMAIN users
       THEN /\ last' = HTTPException("update_user", user_id, None,
                                     HTTP_404_NOT_FOUND, "User not found")
            /\ UNCHANGED sessions
       ELSE /\ sessions' = [sessions EXCEPT ![s] =
                  Modified("update_user", users[user_id], payload,
                           model_dump_exclude_unset(payload))]
            /\ UNCHANGED last
    /\ UNCHANGED <<dialect, users, userSeq, workouts, workoutSeq,
                   issuedUserIds, issuedWorkoutIds>>

\* delete_user up to its commit: db.delete(user)
tx_delete_user(s, user_id) ==
    /\ Idle
    /\ sessions[s].op = "none"
    /\ IF user_id \notin DOMAIN users
       THEN /\ last' = HTTPException("delete_user", user_id, None,
                                     HTTP_404_NOT_FOUND, "User not found")
            /\ UNCHANGED sessions
       ELSE /\ sessions' = [sessions EXCEPT ![s] =
                  [op |-> "delete_user", id |-> user_id, dirty |-> {},
                   values |-> NoValues]]
            /\ UNCHANGED last
    /\ UNCHANGED <<dialect, users, userSeq, workouts, workoutSeq,
                   issuedUserIds, issuedWorkoutIds>>

\* the row an UPDATE of the session's dirty columns leaves
Flushed(user, session) ==
    LET new(f) == IF f \in session.dirty THEN session.values[f] ELSE user[f]
    IN  [user_id |-> user.user_id, name |-> new("name"),
         email |-> new("email"), age |-> new("age"), gender |-> new("gender")]

\* add_user from its commit on
tx_commit_add_user(s) ==
    LET id      == NextKey(users, userSeq)
        user    == UserDB(id, sessions[s].values)
        pending == Put(users, id, user)
        error   == UsersIntegrityError(pending)
    IN  /\ Idle
        /\ sessions[s].op = "add_user"
        /\ id <= MaxUserId
        /\ sessions' = [sessions EXCEPT ![s] = NoSession]
        /\ users' = commit_or_rollback(users, pending, error)
        /\ userSeq' = SeqAfter(userSeq, id)
        /\ last' = IF error
                   THEN HTTPException("add_user", 0, sessions[s].values,
                                      HTTP_409_CONFLICT, "User already exists")
                   ELSE Response("add_user", 0, sessions[s].values,
                                 HTTP_201_CREATED, user)
        /\ issuedUserIds' = IF error THEN issuedUserIds
                            ELSE issuedUserIds \cup {id}
        /\ UNCHANGED <<dialect, workouts, workoutSeq, issuedWorkoutIds>>

\* replace_user and update_user from their commit on.  When the row has
\* been deleted meanwhile the UPDATE matches no row (StaleDataError), or,
\* with nothing to update, db.refresh finds no row: the server answers 500
tx_commit_update(s) ==
    LET session == sessions[s]
        id      == session.id
    IN  /\ Idle
        /\ session.op \in {"replace_user", "update_user"}
        /\ sessions' = [sessions EXCEPT ![s] = NoSession]
        /\ IF id \notin DOMAIN users
           THEN /\ last' = HTTPException(session.op, id, None, 500,
                                         "Internal Server Error")
                /\ UNCHANGED users
           ELSE LET user    == Flushed(users[id], session)
                    pending == Put(users, id, user)
                    error   == UsersIntegrityError(pending)
                IN  /\ users' = commit_or_rollback(users, pending, error)
                    /\ last' = IF error
                               THEN HTTPException(session.op, id, None,
                                        HTTP_409_CONFLICT, "User update failed")
                               ELSE Response(session.op, id, None, 200, user)
        /\ UNCHANGED <<dialect, userSeq, workouts, workoutSeq,
                       issuedUserIds, issuedWorkoutIds>>

\* delete_user from its commit on; a DELETE that matches no row is no error
tx_commit_delete(s) ==
    LET id    == sessions[s].id
        error == /\ ForeignKeysEnforced
                 /\ id \in DOMAIN users
                 /\ ReferencedBy(id) # {}
    IN  /\ Idle
        /\ sessions[s].op = "delete_user"
        /\ sessions' = [sessions EXCEPT ![s] = NoSession]
        /\ users' = IF error THEN users ELSE Remove(users, id)
        /\ last' = IF error
                   THEN HTTPException("delete_user", id, None, 500,
                                      "Internal Server Error")
                   ELSE Response("delete_user", id, None, HTTP_204_NO_CONTENT,
                                 None)
        /\ UNCHANGED <<dialect, userSeq, workouts, workoutSeq,
                       issuedUserIds, issuedWorkoutIds>>

----------------------------------------------------------------------------
(* Specification *)

Init ==
    /\ dialect \in Dialects
    /\ users = EmptyTable
    /\ userSeq = 0
    /\ workouts = EmptyTable
    /\ workoutSeq = 0
    /\ last = NoRequest
    /\ issuedUserIds = {}
    /\ issuedWorkoutIds = {}
    /\ sessions = [s \in Sessions |-> NoSession]

Next ==
    \/ \E payload \in UserInputs : add_user(payload)
    \/ \E id \in UserIdArgs : get_user(id)
    \/ \E id \in UserIdArgs, payload \in UserInputs : replace_user(id, payload)
    \/ \E id \in UserIdArgs, payload \in UserUpdates : update_user(id, payload)
    \/ \E id \in UserIdArgs : delete_user(id)
    \/ \E page \in PageArgs : list_users(page[1], page[2])
    \/ \E payload \in WorkoutCreates : create_workout(payload)
    \/ \E id \in WorkoutIdArgs : get_workout(id)
    \/ \E id \in WorkoutIdArgs, payload \in WorkoutReplacements :
          replace_workout(id, payload)
    \/ \E id \in WorkoutIdArgs, payload \in WorkoutUpdates :
          update_workout(id, payload)
    \/ \E id \in WorkoutIdArgs : delete_workout(id)
    \/ \E user_id \in UserIdFilters, page \in PageArgs :
          list_workouts(user_id, page[1], page[2])
    \/ send_response

Spec == Init /\ [][Next]_vars

\* The Users service with its proxy and aggregation endpoints
ProxyNext ==
    \/ \E payload \in UserInputs : add_user(payload)
    \/ \E id \in UserIdArgs, payload \in UserUpdates : update_user(id, payload)
    \/ \E id \in UserIdArgs : delete_user(id)
    \/ \E id \in UserIdArgs, outcome \in PeerOutcomes("workouts") :
          proxy_workouts(id, outcome)
    \/ \E id \in UserIdArgs, outcome \in PeerOutcomes("goals") :
          proxy_goals(id, outcome)
    \/ \E id \in UserIdArgs, w \in PeerOutcomes("workouts"),
          g \in PeerOutcomes("goals") : user_summary(id, w, g)
    \/ send_response

ProxySpec == Init /\ [][ProxyNext]_vars

\* The Users service handling the requests of Sessions at the same time
ConcNext ==
    \/ \E s \in Sessions, payload \in UserInputs : tx_add_user(s, payload)
    \/ \E s \in Sessions, id \in UserIdArgs, payload \in UserInputs :
          tx_replace_user(s, id, payload)
    \/ \E s \in Sessions, id \in UserIdArgs, payload \in UserUpdates :
          tx_update_user(s, id, payload)
    \/ \E s \in Sessions, id \in UserIdArgs : tx_delete_user(s, id)
    \/ \E s \in Sessions : tx_commit_add_user(s)
    \/ \E s \in Sessions : tx_commit_update(s)
    \/ \E s \in Sessions : tx_commit_delete(s)
    \/ send_response

ConcSpec == Init /\ [][ConcNext]_vars

----------------------------------------------------------------------------
(* Properties *)

StoresUnchanged ==
    /\ users' = users
    /\ workouts' = workouts

\* what every step of a handler changes: the request being answered
request == <<last.op, last.id, last.status>>

\* the request handled last was sent to one of the handlers in ops, and this
\* step is the handler's
Handled(ops) == Idle /\ last'.op \in ops

\* C1: a create whose email a stored user already has answers 409 and
\* leaves every stored record as it was; so does a PUT or a PATCH that would
\* give a user the email of a different stored user.
C1_EmailConflict ==
    [][ Handled({"add_user", "replace_user", "update_user"}) =>
          LET req == last'
              setsEmail == \/ req.op \in {"add_user", "replace_user"}
                           \/ "email" \in req.payload.fields_set
              applies == req.op = "add_user" \/ req.id \in DOMAIN users
              taken == \E j \in DOMAIN users :
                          j # req.id /\ users[j].email = req.payload.email
          IN  (applies /\ setsEmail /\ taken) =>
                 /\ req.status = HTTP_409_CONFLICT
                 /\ StoresUnchanged ]_request

\* C1 witness: a PUT was refused with 409 while two users are stored
C1_Witness ==
    /\ last.op = "replace_user"
    /\ last.status = HTTP_409_CONFLICT
    /\ Cardinality(DOMAIN users) = 2

\* C2: under any interleaving of concurrent create, PUT, PATCH and DELETE
\* transactions no two stored users have the same email; a create answers
\* 201 with its row stored, or 409 with another row holding its email.
C2_UniqueEmail ==
    /\ \A i, j \in DOMAIN users : i # j => users[i].email # users[j].email
    /\ last.op = "add_user" =>
          \/ /\ last.status = HTTP_201_CREATED
             /\ last.body.user_id \in DOMAIN users
             /\ users[last.body.user_id] = last.body
          \/ /\ last.status = HTTP_409_CONFLICT
             /\ \E i \in DOMAIN users : users[i].email = last.payload.email

\* C2 witness: a create has just been stored while another create with the
\* same email, begun before that commit, is still in flight
C2_Witness ==
    /\ last.op = "add_user"
    /\ last.status = HTTP_201_CREATED
    /\ \E s \in Sessions :
          /\ sessions[s].op = "add_user"
          /\ sessions[s].values.email = last.body.email

C4_PartialUpdate ==
    [][ /\ Handled({"update_user"}) =>
            LET id == last'.id
                payload == last'.payload
            IN  /\ last'.status = 200 =>
                      /\ DOMAIN users' = DOMAIN users
                      /\ \A f \in UserFields :
                            users'[id][f] = IF f \in payload.fields_set
                                            THEN payload[f] ELSE users[id][f]
                      /\ users'[id].user_id = id
                      /\ \A j \in DOMAIN users \ {id} : users'[j] = users[j]
                      /\ workouts' = workouts
                      /\ last'.body = users'[id]
                /\ (id \in DOMAIN users /\ payload.fields_set = {}) =>
                      /\ last'.status = 200
                      /\ last'.body = users[id]
                      /\ StoresUnchanged
        /\ Handled({"update_workout"}) =>
            LET id == last'.id
                payload == last'.payload
            IN  /\ last'.status = 200 =>
                      /\ DOMAIN workouts' = DOMAIN workouts
                      /\ \A f \in WorkoutUpdateFields :
                            workouts'[id][f] = IF f \in payload.fields_set
                                               THEN payload[f]
                                               ELSE workouts[id][f]
                      /\ workouts'[id].id = id
                      /\ workouts'[id].user_id = workouts[id].user_id
                      /\ \A j \in DOMAIN workouts \ {id} :
                            workouts'[j] = workouts[j]
                      /\ users' = users
                      /\ last'.body = workouts'[id]
                /\ (id \in DOMAIN workouts /\ payload.fields_set = {}) =>
                      /\ last'.status = 200
                      /\ last'.body = workouts[id]
                      /\ StoresUnchanged ]_request

\* C4 witness: the PATCH {duration_minutes: 45} of the workout "Run"
\* answered 200 while a second workout is stored
C4_Witness ==
    /\ last.op = "update_workout"
    /\ last.status = 200
    /\ last.payload.fields_set = {"duration_minutes"}
    /\ last.body.name = "Run"
    /\ last.body.duration_minutes = "45"
    /\ Cardinality(DOMAIN workouts) = 2

\* C5: GET, PUT, PATCH and DELETE on an id that is not stored answer 404 and
\* change nothing; DELETE on a stored id answers 204 and removes that record
\* and no other.
C5_NotFoundAndDelete ==
    [][ /\ Handled({"get_user", "replace_user", "update_user", "delete_user"}) =>
            /\ last'.id \notin DOMAIN users =>
                  last'.status = HTTP_404_NOT_FOUND /\ StoresUnchanged
            /\ (last'.op = "delete_user" /\ last'.id \in DOMAIN users) =>
                  /\ last'.status = HTTP_204_NO_CONTENT
                  /\ users' = Remove(users, last'.id)
                  /\ workouts' = workouts
        /\ Handled({"get_workout", "replace_workout", "update_workout",
                    "delete_workout"}) =>
            /\ last'.id \notin DOMAIN workouts =>
                  last'.status = HTTP_404_NOT_FOUND /\ StoresUnchanged
            /\ (last'.op = "delete_workout" /\ last'.id \in DOMAIN workouts) =>
                  /\ last'.status = HTTP_204_NO_CONTENT
                  /\ workouts' = Remove(workouts, last'.id)
                  /\ users' = users ]_request

\* rows is positions [offset, offset + limit) of the rows of tbl with a key
\* in keys, taken in ascending key order: the row at position offset + i is
\* the one with exactly offset + i keys at or below its own
IsPage(rows, tbl, keys, limit, offset) ==
    LET n == Cardinality(keys)
        rank(k) == Cardinality({j \in keys : j <= k})
    IN  /\ Len(rows) = IF offset >= n THEN 0
                       ELSE IF limit < n - offset THEN limit ELSE n - offset
        /\ \A i \in 1..Len(rows) :
              \E k \in keys : rank(k) = offset + i /\ rows[i] = tbl[k]

\* C6: list returns positions [offset, offset + limit) of the stored records
\* in ascending identity order; with a user_id filter, of the workouts of
\* that user.
C6_Pagination ==
    /\ last.op = "list_users" =>
          IsPage(last.body, users, DOMAIN users, last.payload.limit,
                 last.payload.offset)
    /\ last.op = "list_workouts" =>
          IsPage(last.body, workouts,
                 IF last.payload.user_id = {} THEN DOMAIN workouts
                 ELSE {w \in DOMAIN workouts :
                          workouts[w].user_id \in last.payload.user_id},
                 last.payload.limit, last.payload.offset)

\* C6 witness: with two workouts of different users stored, the list of one
\* user's workouts from offset 0 returned one row, the second workout
C6_Witness ==
    /\ last.op = "list_workouts"
    /\ last.payload.user_id # {}
    /\ Cardinality(DOMAIN workouts) = 2
    /\ Len(last.body) = 1
    /\ last.body[1].id = 2

\* the call got a response with a 2xx status
Succeeded(call) ==
    /\ call.outcome.kind = "response"
    /\ call.outcome.status_code \in 200..299

Proxies == {"proxy_workouts", "proxy_goals", "user_summary"}

\* C7: user_summary of a stored user answers 200, with the user and both
\* peers' payloads, only when the workouts call and the goals call both
\* succeeded; when either did not it answers 502 and the body carries the
\* error detail alone.
C7_SummaryAllOrNothing ==
    (last.op = "user_summary" /\ last.id \in DOMAIN users) =>
        LET calls == last.calls
            bothOk == /\ Len(calls) = 2
                      /\ calls[1].peer = "workouts" /\ Succeeded(calls[1])
                      /\ calls[2].peer = "goals" /\ Succeeded(calls[2])
        IN  /\ last.status \in {200, HTTP_502_BAD_GATEWAY}
            /\ last.status = 200 =>
                  /\ bothOk
                  /\ last.body = [user |-> users[last.id],
                                  workouts |-> calls[1].outcome.text,
                                  goals |-> calls[2].outcome.text]
            /\ ~bothOk =>
                  /\ last.status = HTTP_502_BAD_GATEWAY
                  /\ DOMAIN last.body = {"detail"}

\* C7 witness: the workouts call succeeded, the goals call did not, and the
\* summary answered 502
C7_Witness ==
    /\ last.op = "user_summary"
    /\ last.status = HTTP_502_BAD_GATEWAY
    /\ Len(last.calls) = 2
    /\ Succeeded(last.calls[1])
    /\ ~Succeeded(last.calls[2])

\* C8: proxy_workouts, proxy_goals and user_summary answer 404 without
\* calling any peer when the user is not stored; every call they do issue is
\* for a stored user, the one of the request.
C8_LocalCheckFirst ==
    last.op \in Proxies =>
        /\ last.id \notin DOMAIN users =>
              last.status = HTTP_404_NOT_FOUND /\ last.calls = <<>>
        /\ \A i \in 1..Len(last.calls) :
              /\ last.id \in DOMAIN users
              /\ last.calls[i].user_id = last.id

\* C8 witness: a summary was asked for a user that is not stored while
\* another user is, and answered 404 with no call issued
C8_Witness ==
    /\ last.op = "user_summary"
    /\ last.status = HTTP_404_NOT_FOUND
    /\ last.calls = <<>>
    /\ DOMAIN users # {}

TransportDetails ==
    {"Error contacting workout service: ", "Error contacting goals service: ",
     "Error contacting downstream services: "}

ApplicationDetails ==
    {"Workout service error: ", "Goals service error: ",
     "Downstream service failed: "}

\* C9: when a call a proxy handler issued fails, the handler answers 502,
\* and the detail is either a transport failure with the description of a
\* call that got no response, or an application failure with the body of a
\* peer's non-success response; each peer is called at most once.
C9_DownstreamFailure ==
    last.op \in Proxies =>
        LET calls == last.calls
            failed == {i \in 1..Len(calls) : ~Succeeded(calls[i])}
        IN  /\ \A i, j \in 1..Len(calls) :
                  calls[i].peer = calls[j].peer => i = j
            /\ (failed = {} /\ calls # <<>>) => last.status = 200
            /\ failed # {} =>
                  /\ last.status = HTTP_502_BAD_GATEWAY
                  /\ \/ /\ last.body.detail[1] \in TransportDetails
                        /\ \E i \in failed :
                              /\ calls[i].outcome.kind = "RequestError"
                              /\ last.body.detail[2] = calls[i].outcome.text
                     \/ /\ last.body.detail[1] \in ApplicationDetails
                        /\ \E i \in failed :
                              /\ calls[i].outcome.kind = "response"
                              /\ last.body.detail[2] = calls[i].outcome.text

\* C9 witness: in a summary the workouts peer answered 500 and the goals
\* peer 200; the summary answered 502 with the workouts peer's body
C9_Witness ==
    /\ last.op = "user_summary"
    /\ last.status = HTTP_502_BAD_GATEWAY
    /\ Len(last.calls) = 2
    /\ last.calls[1].outcome.status_code = 500
    /\ Succeeded(last.calls[2])
    /\ last.body.detail = <<"Downstream service failed: ",
                            last.calls[1].outcome.text>>

\* C10 as stated: a create_workout whose user_id matches no stored user
\* answers 201 and stores the workout.
C10_UnknownUserAccepted ==
    (last.op = "create_workout" /\ last.payload.user_id \notin DOMAIN users) =>
        /\ last.status = HTTP_201_CREATED
        /\ last.body.id \in DOMAIN workouts
        /\ workouts[last.body.id] = last.body

\* C10: create_workout looks no user up.  With the user_id of a stored user
\* it answers 201 and stores the workout; with a user_id that matches no
\* stored user it does the same where the store does not enforce the
\* foreign key, and answers 409 "Workout creation failed", storing nothing,
\* where the store enforces it.
C10_ForeignKeyDecides ==
    last.op = "create_workout" =>
        LET known == last.payload.user_id \in DOMAIN users
        IN  /\ (known \/ ~ForeignKeysEnforced) =>
                  /\ last.status = HTTP_201_CREATED
                  /\ last.body.id \in DOMAIN workouts
                  /\ workouts[last.body.id] = last.body
                  /\ last.body.user_id = last.payload.user_id
            /\ (~known /\ ForeignKeysEnforced) =>
                  /\ last.status = HTTP_409_CONFLICT
                  /\ last.body = [detail |-> "Workout creation failed"]
                  /\ \A w \in DOMAIN workouts :
                        workouts[w].user_id # last.payload.user_id

\* C10 witness: with a user stored, a create_workout for a user_id that
\* matches no stored user was refused with 409
C10_Witness ==
    /\ last.op = "create_workout"
    /\ last.status = HTTP_409_CONFLICT
    /\ DOMAIN users # {}
    /\ last.payload.user_id \notin DOMAIN users

====
